---------------------------- MODULE Spec2Model ----------------------------
(***************************************************************************)
(* Model of the timetable parser (parser.py) and the ICS exporter          *)
(* (ics_exporter.py).                                                      *)
(*                                                                         *)
(* A Python str is a sequence of characters; a character is a one-letter   *)
(* TLA+ string.  The four non-ASCII characters that matter are written by  *)
(* their code point: "U+00E4" (a-umlaut), "U+00C3" (A-tilde), "U+00A4"     *)
(* (currency sign) and "U+00B2" (superscript two).  None (of Optional[str])*)
(* is the one-element sequence NoneStr, which is no str; Optional[int] is a*)
(* sequence of at most one integer (NoWeek, or <<n>>).                     *)
(***************************************************************************)
EXTENDS Integers, Sequences, FiniteSets, TLC

VARIABLES
    raw,            \* parser: the rows of raw_data consumed by the loop so far
    current_date,   \* parser.py:72
    current_week,   \* parser.py:73
    class_groups,   \* parser.py:74
    entries,        \* parser.py:71
    pstate,         \* parser: "scan" | "returned" | "raised"
    cell,           \* extract_course_info: its argument
    info,           \* extract_course_info: its result (Pending before the call)
    call,           \* exporter: the call and its arguments
    outcome,        \* exporter: what the call did (status, events, return value)
    files           \* exporter: the destinations written, name -> text

vars == <<raw, current_date, current_week, class_groups, entries, pstate,
          cell, info, call, outcome, files>>

parserVars == <<raw, current_date, current_week, class_groups, entries, pstate>>
extractVars == <<cell, info>>
exportVars == <<call, outcome, files>>

----------------------------------------------------------------------------
(* Characters and the str methods the code uses *)

NoneStr == <<"None">>
NoWeek == <<>>

Upper == {"A","B","C","D","E","F","G","H","I","J","K","L","M","N","O","P","Q",
          "R","S","T","U","V","W","X","Y","Z"}
Lower == {"a","b","c","d","e","f","g","h","i","j","k","l","m","n","o","p","q",
          "r","s","t","u","v","w","x","y","z"}
Digit == {"0","1","2","3","4","5","6","7","8","9"}
\* Python's \s and str.strip(): of the model's characters, space and newline
Whitespace == {" ", "\n"}
\* Python's \w on str: letters, decimal digits, other numerics, underscore
WordCh == Upper \cup Lower \cup Digit \cup {"_", "U+00E4", "U+00C3", "U+00B2"}
\* str.isdigit(): decimal digits and the digit-like characters int() refuses
IsDigitCh == Digit \cup {"U+00B2"}

UpperSeq == <<"A","B","C","D","E","F","G","H","I","J","K","L","M","N","O","P","Q","R","S","T","U","V","W","X","Y","Z">>
LowerSeq == <<"a","b","c","d","e","f","g","h","i","j","k","l","m","n","o","p","q","r","s","t","u","v","w","x","y","z">>
DigitSeq == <<"0","1","2","3","4","5","6","7","8","9">>

ToLower(c) ==
    IF c \in Upper
    THEN LowerSeq[CHOOSE i \in 1..26 : UpperSeq[i] = c]
    ELSE IF c = "U+00C3" THEN "U+00E3" ELSE c

lower(s) == [i \in 1..Len(s) |-> ToLower(s[i])]

\* s[i:i+len(p)] == p, i counted from 1
HasAt(s, i, p) ==
    /\ i >= 1
    /\ i + Len(p) - 1 <= Len(s)
    /\ SubSeq(s, i, i + Len(p) - 1) = p

\* p in s
Contains(s, p) == \E i \in 1..(Len(s) + 1) : HasAt(s, i, p)

InAt(s, i, C) == i >= 1 /\ i <= Len(s) /\ s[i] \in C

\* the index after the longest run of characters of C that starts at i
RECURSIVE RunEnd(_, _, _)
RunEnd(s, i, C) == IF InAt(s, i, C) THEN RunEnd(s, i + 1, C) ELSE i

\* the index before the longest run of characters of C that ends at i
RECURSIVE RunStart(_, _, _)
RunStart(s, i, C) == IF InAt(s, i, C) THEN RunStart(s, i - 1, C) ELSE i

strip(s) ==
    LET a == RunEnd(s, 1, Whitespace)
    IN  IF a > Len(s) THEN <<>>
        ELSE SubSeq(s, a, RunStart(s, Len(s), Whitespace))

isdigit(s) == Len(s) > 0 /\ \A i \in 1..Len(s) : s[i] \in IsDigitCh

DigitVal(c) == (CHOOSE i \in 1..10 : DigitSeq[i] = c) - 1

\* int(s) for a string of ASCII decimal digits
RECURSIVE IntOfDigits(_)
IntOfDigits(s) ==
    IF Len(s) = 0 THEN 0
    ELSE 10 * IntOfDigits(SubSeq(s, 1, Len(s) - 1)) + DigitVal(s[Len(s)])

\* int(s) succeeds: after strip(), a non-empty run of decimal digits
IntOk(s) == LET t == strip(s) IN Len(t) > 0 /\ \A i \in 1..Len(t) : t[i] \in Digit

\* str.split(sep): the parts of s between the occurrences of sep, left to right
RECURSIVE SplitFrom(_, _, _, _)
SplitFrom(s, sep, i, start) ==
    IF i > Len(s) - Len(sep) + 1 THEN <<SubSeq(s, start, Len(s))>>
    ELSE IF HasAt(s, i, sep)
         THEN <<SubSeq(s, start, i - 1)>>
                  \o SplitFrom(s, sep, i + Len(sep), i + Len(sep))
         ELSE SplitFrom(s, sep, i + 1, start)

split(s, sep) == SplitFrom(s, sep, 1, 1)

\* str(n) for n >= 0
RECURSIVE StrOfNat(_)
StrOfNat(n) ==
    IF n < 10 THEN <<DigitSeq[n + 1]>>
    ELSE StrOfNat(n \div 10) \o <<DigitSeq[(n % 10) + 1]>>

\* format n with at least w digits, zero-padded (%02d, %04d)
RECURSIVE ZeroPad(_, _)
ZeroPad(s, w) == IF Len(s) >= w THEN s ELSE ZeroPad(<<"0">> \o s, w)

EndsWith(s, p) == Len(p) <= Len(s) /\ SubSeq(s, Len(s) - Len(p) + 1, Len(s)) = p

Min(S) == CHOOSE x \in S : \A y \in S : x <= y

----------------------------------------------------------------------------
(* TimetableParser: patterns *)

Weekdays == {<<"M","o","n","t","a","g">>, <<"D","i","e","n","s","t","a","g">>, <<"M","i","t","t","w","o","c","h">>, <<"D","o","n","n","e","r","s","t","a","g">>,
             <<"F","r","e","i","t","a","g">>, <<"S","a","m","s","t","a","g">>, <<"S","o","n","n","t","a","g">>}

GroupTokens == {<<"2","5","A">>, <<"2","5","B">>, <<"2","5","C">>, <<"2","4","A">>, <<"2","4","B">>, <<"2","4","C">>}

\* self.remote_keywords: tested with "in", so each is a plain substring
remote_keywords == {<<"r","e","m","o","t","e">>, <<"t","e","a","m","s">>, <<"c","o","a","c","h","i","n","g",".","*","r","e","m","o","t","e">>}

Teams == <<"T","e","a","m","s">>
Unknown == <<"U","n","k","n","o","w","n">>

\* date_pattern matched at position i: the index after the match, 0 if none.
\* \d{1,2} is followed by a literal dot and \w+ by a space, so each greedy
\* run has one possible length.
DateEndAt(s, i) ==
    IF \E w \in Weekdays : HasAt(s, i, w)
    THEN LET w == CHOOSE x \in Weekdays : HasAt(s, i, x)
             a == i + Len(w)
             b == a + 2
             nd == IF InAt(s, b, Digit) /\ InAt(s, b + 1, Digit)
                      /\ HasAt(s, b + 2, <<"."," ">>)
                   THEN 2
                   ELSE IF InAt(s, b, Digit) /\ HasAt(s, b + 1, <<"."," ">>)
                        THEN 1 ELSE 0
             c == b + nd + 2
             d == RunEnd(s, c, WordCh)
         IN  IF /\ HasAt(s, a, <<","," ">>)
                /\ nd > 0
                /\ d > c
                /\ HasAt(s, d, <<" ">>)
                /\ \A k \in 1..4 : InAt(s, d + k, Digit)
             THEN d + 5
             ELSE 0
    ELSE 0

\* re.search(self.date_pattern, s).group(), NoneStr when there is no match
date_search(s) ==
    LET hits == {i \in 1..Len(s) : DateEndAt(s, i) > 0}
    IN  IF hits = {} THEN NoneStr
        ELSE LET i == Min(hits) IN SubSeq(s, i, DateEndAt(s, i) - 1)

\* time_pattern \d{2}:\d{2}-\d{2}:\d{2} matched at position i
TimeAt(s, i) ==
    /\ \A k \in {0, 1, 3, 4, 6, 7, 9, 10} : InAt(s, i + k, Digit)
    /\ InAt(s, i + 2, {":"})
    /\ InAt(s, i + 5, {"-"})
    /\ InAt(s, i + 8, {":"})

\* re.search(self.time_pattern, s).group(), NoneStr when there is no match
time_search(s) ==
    LET hits == {i \in 1..Len(s) : TimeAt(s, i)}
    IN  IF hits = {} THEN NoneStr
        ELSE LET i == Min(hits) IN SubSeq(s, i, i + 10)

UpperOrSpace == Upper \cup Whitespace
UpperOrDigit == Upper \cup Digit

\* course_pattern ([A-Z\s]+)\s*/\s*([A-Z0-9]+) matched at position i.  The
\* slash is outside [A-Z\s], so group 1 is the whole run from i and \s*
\* before the slash is empty.
CourseAt(s, i) ==
    LET j == RunEnd(s, i, UpperOrSpace)
        k == RunEnd(s, j + 1, Whitespace)
    IN  /\ j > i
        /\ InAt(s, j, {"/"})
        /\ InAt(s, k, UpperOrDigit)

\* is_remote_class without entry.lower(): the keywords compared case-sensitively
is_remote_class_case_sensitive(entry) ==
    IF Len(entry) = 0 THEN FALSE
    ELSE \E keyword \in remote_keywords : Contains(entry, keyword)

is_remote_class(entry) ==
    IF Len(entry) = 0 THEN FALSE
    ELSE \E keyword \in remote_keywords : Contains(lower(entry), keyword)

NoInfo == <<>>

\* extract_course_info(entry): <<course_code, room>>, or NoInfo for None
extract_course_info(entry) ==
    IF Len(entry) = 0 \/ strip(entry) = <<>> THEN NoInfo
    ELSE
      LET runs == {i \in 1..Len(entry) : InAt(entry, i, UpperOrSpace)}
          hits == {i \in 1..Len(entry) : CourseAt(entry, i)}
      IN  IF is_remote_class(entry) /\ runs # {}
          THEN LET i == Min(runs)
               IN  <<strip(SubSeq(entry, i, RunEnd(entry, i, UpperOrSpace) - 1)),
                     Teams>>
          ELSE IF hits # {}
               THEN LET i == Min(hits)
                        j == RunEnd(entry, i, UpperOrSpace)
                        k == RunEnd(entry, j + 1, Whitespace)
                    IN  <<strip(SubSeq(entry, i, j - 1)),
                          strip(SubSeq(entry, k, RunEnd(entry, k, UpperOrDigit) - 1))>>
               ELSE NoInfo

----------------------------------------------------------------------------
(* TimetableParser.parse_raw_data *)

\* "if cell": a cell that is neither None nor ""
Truthy(c) == c # NoneStr /\ c # <<>>

\* " ".join(str(cell) if cell else "" for cell in row)
RECURSIVE row_str(_)
row_str(row) ==
    IF Len(row) = 0 THEN <<>>
    ELSE LET c == IF Truthy(row[1]) THEN row[1] ELSE <<>>
         IN  IF Len(row) = 1 THEN c
             ELSE c \o <<" ">> \o row_str(Tail(row))

\* [cell for cell in row if cell and cell.strip()]
RECURSIVE group_cells(_)
group_cells(row) ==
    IF Len(row) = 0 THEN <<>>
    ELSE IF Truthy(row[1]) /\ strip(row[1]) # <<>>
         THEN <<row[1]>> \o group_cells(Tail(row))
         ELSE group_cells(Tail(row))

\* The if-chain of the loop body: the first branch the row takes; has_date is
\* the truth value of current_date.
RowRule(row, has_date) ==
    LET rs == row_str(row)
    IN  IF Len(row) = 0 THEN "empty"
        ELSE IF Contains(rs, <<"W","O","C","H","E","N">>) THEN "wochen"
        ELSE IF isdigit(strip(rs)) THEN "week"
        ELSE IF \E group \in GroupTokens : Contains(rs, group) THEN "groups"
        ELSE IF date_search(rs) # NoneStr THEN "date"
        ELSE IF time_search(rs) # NoneStr /\ has_date THEN "data"
        ELSE "ignored"

\* group_of with the cell index taken as the group index, the offset forgotten
group_of_by_cell_index(groups, i) ==
    LET group_index == i - 1
    IN  IF group_index < Len(groups) THEN groups[group_index + 1] ELSE Unknown

\* class_groups[group_index] if group_index < len(class_groups) else "Unknown"
\* for the cell at position i (counted from 1; the code's index is i - 1)
group_of(groups, i) ==
    LET group_index == (i - 1) - 2
    IN  IF group_index < Len(groups) THEN groups[group_index + 1] ELSE Unknown

\* for i, cell in enumerate(row[2:], start=2): the entries of the cells from i on
RECURSIVE row_entries(_, _, _, _, _, _)
row_entries(row, i, time_slot, date, week, groups) ==
    IF i > Len(row) THEN <<>>
    ELSE LET c == row[i]
             course_info == IF Truthy(c) /\ strip(c) # <<>>
                            THEN extract_course_info(c) ELSE NoInfo
             rest == row_entries(row, i + 1, time_slot, date, week, groups)
         IN  IF course_info # NoInfo
             THEN <<[date |-> date, time |-> time_slot,
                     course_code |-> course_info[1], room |-> course_info[2],
                     class_group |-> group_of(groups, i), week |-> week]>> \o rest
             ELSE rest

\* the first cell the inner loop visits: row[2:]
FirstCourseCell == 3

----------------------------------------------------------------------------
(* The rows the scan is fed *)

MaxRows == 3

RowPool == {
    <<>>,
    <<<<"W","O","C","H","E","N"," ","2","5","A">>, <<"0","8",":","0","0","-","0","9",":","0","0">>, <<"O","O","P"," ","/"," ","A","1">>>>,
    <<NoneStr, <<" ","7"," ">>>>,
    <<<<"0">>>>,
    <<<<"U+00B2">>>>,
    <<NoneStr, <<>>, <<"2","5","A">>, <<"2","5","B">>>>,
    <<<<"M","o","n","t","a","g",","," ","1","."," ","M","a","i"," ","2","0","2","5">>, <<"0","8",":","0","0","-","0","9",":","0","0">>, <<"2","5","C"," ","/"," ","A","1">>>>,
    <<<<"D","o","n","n","e","r","s","t","a","g",","," ","1","4","."," ","A","u","g","u","s","t"," ","2","0","2","5">>>>,
    <<<<"F","r","e","i","t","a","g",","," ","1","."," ","M","a","i"," ","2","0","2","5">>, <<"0","8",":","0","0","-","0","9",":","0","0">>, <<"O","O","P"," ","/"," ","A","1">>>>,
    <<NoneStr, <<"0","8",":","0","0","-","0","9",":","0","0">>, <<"O","O","P"," ","/"," ","A","1">>, <<"M","A","T"," ","r","e","m","o","t","e">>, <<"S","W","E"," ","/"," ","B","2">>>>,
    <<<<"O","O","P"," ","/"," ","A","1">>, <<"1","0",":","1","5","-","1","1",":","4","5"," ","D","B"," ","/"," ","C","3">>, <<>>, <<"x">>, <<"r","e","m","o","t","e"," ","c","l","a","s","s">>>>,
    <<<<"P","a","u","s","e">>>> }

\* RowRule, tabulated once over the rows the scan is fed
RuleOf == [row \in RowPool, has_date \in BOOLEAN |-> RowRule(row, has_date)]

Pending == <<"pending">>
NoCall == [op |-> "none"]
NoOutcome == [status |-> "none"]
NoFiles == {}

ParserIdle ==
    /\ raw = <<>>
    /\ current_date = NoneStr
    /\ current_week = NoWeek
    /\ class_groups = <<>>
    /\ entries = <<>>
    /\ pstate = "idle"

ExtractIdle == cell = NoneStr /\ info = Pending
ExportIdle == call = NoCall /\ outcome = NoOutcome /\ files = NoFiles

\* parser.py:71-74
Init ==
    /\ raw = <<>>
    /\ current_date = NoneStr
    /\ current_week = NoWeek
    /\ class_groups = <<>>
    /\ entries = <<>>
    /\ pstate = "scan"
    /\ ExtractIdle
    /\ ExportIdle

Scanning == pstate = "scan" /\ Len(raw) < MaxRows

\* if not row: continue
SkipEmpty(row) ==
    /\ Scanning
    /\ RuleOf[row, current_date # NoneStr] = "empty"
    /\ raw' = Append(raw, row)
    /\ UNCHANGED <<current_date, current_week, class_groups, entries, pstate>>
    /\ UNCHANGED <<extractVars, exportVars>>

\* if "WOCHEN" in row_str: continue
Wochen(row) ==
    /\ Scanning
    /\ RuleOf[row, current_date # NoneStr] = "wochen"
    /\ raw' = Append(raw, row)
    /\ UNCHANGED <<current_date, current_week, class_groups, entries, pstate>>
    /\ UNCHANGED <<extractVars, exportVars>>

\* current_week = int(row_str.strip()); continue
WeekMarker(row) ==
    /\ Scanning
    /\ RuleOf[row, current_date # NoneStr] = "week"
    /\ IntOk(row_str(row))
    /\ raw' = Append(raw, row)
    /\ current_week' = <<IntOfDigits(strip(row_str(row)))>>
    /\ UNCHANGED <<current_date, class_groups, entries, pstate>>
    /\ UNCHANGED <<extractVars, exportVars>>

\* int() raises ValueError on a digit str.isdigit() accepts and int() does not:
\* nothing catches it, parse_raw_data ends without a result
WeekMarkerRaises(row) ==
    /\ Scanning
    /\ RuleOf[row, current_date # NoneStr] = "week"
    /\ ~IntOk(row_str(row))
    /\ raw' = Append(raw, row)
    /\ pstate' = "raised"
    /\ UNCHANGED <<current_date, current_week, class_groups, entries>>
    /\ UNCHANGED <<extractVars, exportVars>>

\* class_groups = [...]; continue
GroupHeader(row) ==
    /\ Scanning
    /\ RuleOf[row, current_date # NoneStr] = "groups"
    /\ raw' = Append(raw, row)
    /\ class_groups' = group_cells(row)
    /\ UNCHANGED <<current_date, current_week, entries, pstate>>
    /\ UNCHANGED <<extractVars, exportVars>>

\* DateRow with the week forgotten at each new date
DateRowResetsWeek(row) ==
    /\ Scanning
    /\ RuleOf[row, current_date # NoneStr] = "date"
    /\ raw' = Append(raw, row)
    /\ current_date' = date_search(row_str(row))
    /\ current_week' = NoWeek
    /\ UNCHANGED <<class_groups, entries, pstate>>
    /\ UNCHANGED <<extractVars, exportVars>>

\* current_date = date_match.group(); continue
DateRow(row) ==
    /\ Scanning
    /\ RuleOf[row, current_date # NoneStr] = "date"
    /\ raw' = Append(raw, row)
    /\ current_date' = date_search(row_str(row))
    /\ UNCHANGED <<current_week, class_groups, entries, pstate>>
    /\ UNCHANGED <<extractVars, exportVars>>

\* DataRow with the inner loop over row[3:], the first course column skipped
DataRowSkipsFirstCourseCell(row) ==
    /\ Scanning
    /\ RuleOf[row, current_date # NoneStr] = "data"
    /\ raw' = Append(raw, row)
    /\ entries' = entries \o row_entries(row, FirstCourseCell + 1,
                                        time_search(row_str(row)),
                                        current_date, current_week, class_groups)
    /\ UNCHANGED <<current_date, current_week, class_groups, pstate>>
    /\ UNCHANGED <<extractVars, exportVars>>

\* if time_match and current_date: one entry per course cell
DataRow(row) ==
    /\ Scanning
    /\ RuleOf[row, current_date # NoneStr] = "data"
    /\ raw' = Append(raw, row)
    /\ entries' = entries \o row_entries(row, FirstCourseCell,
                                        time_search(row_str(row)),
                                        current_date, current_week, class_groups)
    /\ UNCHANGED <<current_date, current_week, class_groups, pstate>>
    /\ UNCHANGED <<extractVars, exportVars>>

\* no branch taken
Ignored(row) ==
    /\ Scanning
    /\ RuleOf[row, current_date # NoneStr] = "ignored"
    /\ raw' = Append(raw, row)
    /\ UNCHANGED <<current_date, current_week, class_groups, entries, pstate>>
    /\ UNCHANGED <<extractVars, exportVars>>

\* return entries: raw_data ends after the rows consumed
Return ==
    /\ pstate = "scan"
    /\ pstate' = "returned"
    /\ UNCHANGED <<raw, current_date, current_week, class_groups, entries>>
    /\ UNCHANGED <<extractVars, exportVars>>

Next ==
    \/ \E row \in RowPool :
          \/ SkipEmpty(row)
          \/ Wochen(row)
          \/ WeekMarker(row)
          \/ WeekMarkerRaises(row)
          \/ GroupHeader(row)
          \/ DateRow(row)
          \/ DataRow(row)
          \/ Ignored(row)
    \/ Return

Spec == Init /\ [][Next]_vars

----------------------------------------------------------------------------
(* What the specification says of the scan, stated over the rows consumed *)

Max(S) == CHOOSE x \in S : \A y \in S : x >= y

\* the row the last step consumed
StepRow(rows) == rows[Len(rows)]

\* the first of rules 1-4 of the specification that a row matches, by its text alone
ExpRuleOfText(row) ==
    LET text == row_str(row)
    IN  CASE Contains(text, <<"W","O","C","H","E","N">>) -> "wochen"
          [] ~Contains(text, <<"W","O","C","H","E","N">>) /\ isdigit(strip(text)) -> "week"
          [] ~Contains(text, <<"W","O","C","H","E","N">>) /\ ~isdigit(strip(text))
               /\ (\E g \in GroupTokens : Contains(text, g)) -> "groups"
          [] ~Contains(text, <<"W","O","C","H","E","N">>) /\ ~isdigit(strip(text))
               /\ ~(\E g \in GroupTokens : Contains(text, g))
               /\ date_search(text) # NoneStr -> "date"
          [] OTHER -> "other"

\* ExpRuleOfText, tabulated once over the rows the scan is fed
ExpRuleTable == [row \in RowPool |-> ExpRuleOfText(row)]
ExpRule(row) == ExpRuleTable[row]

HasTimeRange(row) == time_search(row_str(row)) # NoneStr

\* a row that reaches rule 5 and holds a time range
DataShaped(row) == ExpRule(row) = "other" /\ HasTimeRange(row)

NonEmptyCell(c) == c # NoneStr /\ strip(c) # <<>>

\* the cells from the third column on that yield a course, left to right
RECURSIVE ExpProducing(_, _)
ExpProducing(row, i) ==
    IF i > Len(row) THEN <<>>
    ELSE IF i >= 3 /\ NonEmptyCell(row[i]) /\ extract_course_info(row[i]) # NoInfo
         THEN <<i>> \o ExpProducing(row, i + 1)
         ELSE ExpProducing(row, i + 1)

\* the non-empty cells of the last class-group header row among rows[1..k-1]
ExpHeader(rows, k) ==
    LET S == {j \in 1..(k - 1) : ExpRule(rows[j]) = "groups"}
    IN  IF S = {} THEN <<>>
        ELSE SelectSeq(rows[Max(S)], LAMBDA c : NonEmptyCell(c))

\* the date matched in the last date row among rows[1..k-1]
ExpDate(rows, k) ==
    LET S == {j \in 1..(k - 1) : ExpRule(rows[j]) = "date"}
    IN  IF S = {} THEN NoneStr ELSE date_search(row_str(rows[Max(S)]))

\* the integer of the last week-marker row among rows[1..k-1]
ExpWeek(rows, k) ==
    LET S == {j \in 1..(k - 1) : ExpRule(rows[j]) = "week"}
    IN  IF S = {} THEN NoWeek
        ELSE <<IntOfDigits(strip(row_str(rows[Max(S)])))>>

\* what row k contributes: date, week, time and course of each producing cell
ExpRowEntries(rows, k) ==
    IF DataShaped(rows[k]) /\ ExpDate(rows, k) # NoneStr
    THEN LET idx == ExpProducing(rows[k], 1)
         IN  [n \in 1..Len(idx) |->
                 [date |-> ExpDate(rows, k),
                  week |-> ExpWeek(rows, k),
                  time |-> time_search(row_str(rows[k])),
                  course |-> extract_course_info(rows[k][idx[n]])]]
    ELSE <<>>

RECURSIVE ExpAll(_, _)
ExpAll(rows, k) ==
    IF k = 0 THEN <<>> ELSE ExpAll(rows, k - 1) \o ExpRowEntries(rows, k)

Consumed == Len(raw') = Len(raw) + 1

NewEntries == SubSeq(entries', Len(entries) + 1, Len(entries'))

\* C1: a data row (date set, time range present, none of rules 1-4) appends
\* exactly one entry per non-empty cell at index >= 2 that extract_course_info
\* accepts; the cells at index 0 and 1 add none.
C1_EntriesPerDataRow ==
    [][(Consumed /\ DataShaped(StepRow(raw')) /\ current_date # NoneStr)
          => /\ Len(entries') >= Len(entries)
             /\ SubSeq(entries', 1, Len(entries)) = entries
             /\ Len(NewEntries) = Len(ExpProducing(StepRow(raw'), 1))]_vars

\* a data row with a course in each of its first two cells has added one entry,
\* for its one course cell at index >= 2
C1_Witness ==
    /\ Len(raw) = 2
    /\ DataShaped(raw[2])
    /\ extract_course_info(raw[2][1]) # NoInfo
    /\ extract_course_info(raw[2][2]) # NoInfo
    /\ Len(ExpProducing(raw[2], 1)) = 1
    /\ Len(entries) = 1

\* C2: the entry of the cell at index i of a data row has class_group
\* class_groups[i-2] when that is in range and "Unknown" otherwise, class_groups
\* being the non-empty cells of the last class-group header row before it.
C2_ClassGroupByColumn ==
    [][(Consumed /\ DataShaped(StepRow(raw')) /\ current_date # NoneStr)
          => LET idx == ExpProducing(StepRow(raw'), 1)
                 header == ExpHeader(raw', Len(raw'))
             IN  /\ Len(NewEntries) = Len(idx)
                 /\ \A n \in 1..Len(idx) :
                       NewEntries[n].class_group =
                           IF idx[n] - 2 <= Len(header)
                           THEN header[idx[n] - 2] ELSE Unknown]_vars

\* header 25A/25B, a date, then a row of three courses: 25A, 25B and Unknown
C2_Witness ==
    /\ Len(entries) = 3
    /\ entries[1].class_group = <<"2","5","A">>
    /\ entries[2].class_group = <<"2","5","B">>
    /\ entries[3].class_group = Unknown

\* C5: every Entry parse_raw_data returns has non-empty date, time,
\* course_code, room and class_group, and a week that is unset or positive.
C5_EntryFieldsWellFormed ==
    pstate = "returned" =>
        \A n \in 1..Len(entries) :
            /\ entries[n].date # <<>> /\ entries[n].date # NoneStr
            /\ entries[n].time # <<>> /\ entries[n].time # NoneStr
            /\ entries[n].course_code # <<>>
            /\ entries[n].room # <<>>
            /\ entries[n].class_group # <<>>
            /\ (entries[n].week = NoWeek \/ entries[n].week[1] > 0)

\* C9: every row is classified by the first matching rule, in the order WOCHEN,
\* week marker (stripped text all digits: sets current_week to its integer),
\* class-group header, date, data row, and the scan goes on; a row one of the
\* first four rules matches adds no entry and changes at most its rule's
\* context variable.
C9_FirstMatchWins ==
    [][Consumed =>
        LET row == StepRow(raw')
            rule == ExpRule(row)
        IN  /\ rule # "other" => entries' = entries
            /\ rule = "wochen" =>
                  UNCHANGED <<current_date, current_week, class_groups>>
            /\ rule = "week" =>
                  /\ UNCHANGED <<current_date, class_groups>>
                  /\ pstate' = "scan"
                  /\ current_week' = <<IntOfDigits(strip(row_str(row)))>>
            /\ rule = "groups" =>
                  /\ UNCHANGED <<current_date, current_week>>
                  /\ class_groups' = SelectSeq(row, LAMBDA c : NonEmptyCell(c))
            /\ rule = "date" =>
                  /\ UNCHANGED <<current_week, class_groups>>
                  /\ current_date' = date_search(row_str(row))
            /\ rule = "other" =>
                  /\ UNCHANGED <<current_date, current_week, class_groups>>
                  /\ ~(HasTimeRange(row) /\ current_date # NoneStr)
                        => entries' = entries]_vars

\* C10: no entry comes from a row before the first date row; every entry carries
\* the date of the last date row and the week of the last week-marker row before
\* its row (unset if none); entries are in row order, then column order.
C10_ContextPersists ==
    [n \in 1..Len(entries) |->
        [date |-> entries[n].date, week |-> entries[n].week,
         time |-> entries[n].time,
         course |-> <<entries[n].course_code, entries[n].room>>]]
      = ExpAll(raw, Len(raw))

\* a week marker, then a date row, then a data row: its entries carry both
C10_Witness ==
    /\ Len(raw) = 3
    /\ ExpRule(raw[1]) = "week"
    /\ ExpRule(raw[2]) = "date"
    /\ DataShaped(raw[3])
    /\ Len(entries) = 3
    /\ entries[3].week = <<7>>
    /\ entries[3].date = date_search(row_str(raw[2]))

----------------------------------------------------------------------------
(* extract_course_info on its own *)

MaxFrags == 3

Fragments == {<<"O","O","P">>, <<" ">>, <<"/">>, <<"A","1">>, <<"r","e","m","o","t","e">>, <<"T","e","a","m","s">>,
              <<"c","o","a","c","h","i","n","g">>, <<"x">>}

\* the texts made of at most n fragments
RECURSIVE CellsUpTo(_)
CellsUpTo(n) ==
    IF n = 0 THEN {<<>>}
    ELSE LET shorter == CellsUpTo(n - 1)
         IN  shorter \cup {c \o f : c \in shorter, f \in Fragments}

InitExtract ==
    /\ cell \in CellsUpTo(MaxFrags)
    /\ info = Pending
    /\ ParserIdle
    /\ ExportIdle

Extract ==
    /\ info = Pending
    /\ info' = extract_course_info(cell)
    /\ UNCHANGED <<cell, parserVars, exportVars>>

NextExtract == Extract

SpecExtract == InitExtract /\ [][NextExtract]_vars

\* "coaching" followed eventually by "remote" on one line, as the regular
\* expression coaching.*remote matches it
CoachingThenRemote(s) ==
    \E i \in 1..Len(s), j \in 1..Len(s) :
        /\ HasAt(s, i, <<"c","o","a","c","h","i","n","g">>)
        /\ HasAt(s, j, <<"r","e","m","o","t","e">>)
        /\ j >= i + 8
        /\ \A k \in (i + 8)..(j - 1) : s[k] # "\n"

\* the remote cells of the specification, case-insensitively
SpecRemote(c) ==
    \/ Contains(lower(c), <<"r","e","m","o","t","e">>)
    \/ Contains(lower(c), <<"t","e","a","m","s">>)
    \/ CoachingThenRemote(lower(c))

\* room is the group [A-Z0-9]+ to the right of a slash of c
RoomRightOfSlash(c, room) ==
    \E p \in 1..Len(c) :
        /\ c[p] = "/"
        /\ LET k == RunEnd(c, p + 1, Whitespace)
           IN  /\ RunEnd(c, k, UpperOrDigit) > k
               /\ room = SubSeq(c, k, RunEnd(c, k, UpperOrDigit) - 1)

HasUpperOrSpace(c) == \E i \in 1..Len(c) : c[i] \in UpperOrSpace

\* C7 as claimed: the room is "Teams" exactly for the remote cells; any other
\* cell gets the group right of the slash, or no entry.
C7_RemoteIffTeams ==
    info # Pending =>
        /\ (info # NoInfo /\ info[2] = Teams) <=> SpecRemote(cell)
        /\ (~SpecRemote(cell) /\ info # NoInfo) => RoomRightOfSlash(cell, info[2])

\* C7 as the code has it: the room is "Teams" exactly for the remote cells that
\* hold an uppercase letter or a whitespace character; a remote cell with
\* neither yields no entry; any other cell gets the group right of the slash,
\* or no entry.
C7_RemoteWithCodeIffTeams ==
    info # Pending =>
        /\ (info # NoInfo /\ info[2] = Teams)
              <=> (SpecRemote(cell) /\ HasUpperOrSpace(cell))
        /\ (SpecRemote(cell) /\ ~HasUpperOrSpace(cell)) => info = NoInfo
        /\ (~SpecRemote(cell) /\ info # NoInfo) => RoomRightOfSlash(cell, info[2])

\* a cell that is remote only by the capitalised "Teams" got the room "Teams"
C7_Witness ==
    /\ info # Pending
    /\ info # NoInfo
    /\ info[2] = Teams
    /\ Contains(cell, <<"T","e","a","m","s">>)
    /\ ~Contains(cell, <<"r","e","m","o","t","e">>)
    /\ info[1] = <<"O","O","P">>

----------------------------------------------------------------------------
(* ICSExporter *)

\* self.german_months; the key of month 3 is spelled as the source file has it
german_months == {
    [name |-> <<"J","a","n","u","a","r">>, month |-> 1], [name |-> <<"F","e","b","r","u","a","r">>, month |-> 2],
    [name |-> <<"M","U+00C3","U+00A4","r","z">>, month |-> 3],
    [name |-> <<"A","p","r","i","l">>, month |-> 4], [name |-> <<"M","a","i">>, month |-> 5],
    [name |-> <<"J","u","n","i">>, month |-> 6], [name |-> <<"J","u","l","i">>, month |-> 7],
    [name |-> <<"A","u","g","u","s","t">>, month |-> 8], [name |-> <<"S","e","p","t","e","m","b","e","r">>, month |-> 9],
    [name |-> <<"O","k","t","o","b","e","r">>, month |-> 10], [name |-> <<"N","o","v","e","m","b","e","r">>, month |-> 11],
    [name |-> <<"D","e","z","e","m","b","e","r">>, month |-> 12] }

\* self.german_months.get(month_name), 0 for None
month_get(month_name) ==
    IF \E r \in german_months : r.name = month_name
    THEN (CHOOSE r \in german_months : r.name = month_name).month
    ELSE 0

IsLeap(y) == y % 4 = 0 /\ (y % 100 # 0 \/ y % 400 = 0)

DaysInMonth(y, m) ==
    IF m = 2 THEN (IF IsLeap(y) THEN 29 ELSE 28)
    ELSE IF m \in {4, 6, 9, 11} THEN 30 ELSE 31

\* datetime.date(year, month, day) accepts its arguments
DateCtorOk(y, m, d) == y >= 1 /\ y <= 9999 /\ d >= 1 /\ d <= DaysInMonth(y, m)

BadDate == [ok |-> FALSE, year |-> 0, month |-> 0, day |-> 0]

\* datetime.date(year, month, day) after "if month:"
make_date(year, month, day) ==
    IF month # 0 /\ DateCtorOk(year, month, day)
    THEN [ok |-> TRUE, year |-> year, month |-> month, day |-> day]
    ELSE BadDate

\* the length of the match of (\d{1,2}) before the literal dot, 0 for no match
day_digits(p) ==
    IF InAt(p, 1, Digit) /\ InAt(p, 2, Digit) /\ InAt(p, 3, {"."}) THEN 2
    ELSE IF InAt(p, 1, Digit) /\ InAt(p, 2, {"."}) THEN 1 ELSE 0

\* (\d{4}) at position y, after day, month name p[m..w-1] and \s+ p[w..y-1]
match_year(p, nd, m, w, y) ==
    IF y > w /\ \A k \in 0..3 : InAt(p, y + k, Digit)
    THEN make_date(IntOfDigits(SubSeq(p, y, y + 3)),
                   month_get(SubSeq(p, m, w - 1)),
                   IntOfDigits(SubSeq(p, 1, nd)))
    ELSE BadDate

\* (\w+)\s+ from position m: the month name is the whole run of word characters
match_month(p, nd, m, w) ==
    IF w > m THEN match_year(p, nd, m, w, RunEnd(p, w, Whitespace)) ELSE BadDate

\* \.\s+ after the nd digits of the day
match_after_day(p, nd, m) ==
    IF nd > 0 /\ m > nd + 2 THEN match_month(p, nd, m, RunEnd(p, m, WordCh))
    ELSE BadDate

\* re.match(r"(\d{1,2})\.\s+(\w+)\s+(\d{4})", date_part) and what follows it
match_date_part(p, nd) == match_after_day(p, nd, RunEnd(p, nd + 2, Whitespace))

\* date_str.split(", ")[1], when there is one
date_part(parts) == IF Len(parts) < 2 THEN NoneStr ELSE parts[2]

\* parse_german_date(date_str): the date, or ok = FALSE for the ValueError it
\* raises (an IndexError of the split is re-raised as ValueError)
parse_german_date(date_str) ==
    IF Len(split(date_str, <<","," ">>)) < 2 THEN BadDate
    ELSE match_date_part(date_part(split(date_str, <<","," ">>)),
                         day_digits(date_part(split(date_str, <<","," ">>))))

\* the decimal digits of INT_MAX: datetime.time converts its arguments to C int
MaxCIntDigits == <<"2","1","4","7","4","8","3","6","4","7">>

RECURSIVE DropZeros(_)
DropZeros(s) == IF Len(s) > 0 /\ s[1] = "0" THEN DropZeros(Tail(s)) ELSE s

\* s <= t for digit strings of one length
RECURSIVE DigitsLeq(_, _)
DigitsLeq(s, t) ==
    IF Len(s) = 0 THEN TRUE
    ELSE IF DigitVal(s[1]) # DigitVal(t[1]) THEN DigitVal(s[1]) < DigitVal(t[1])
         ELSE DigitsLeq(Tail(s), Tail(t))

\* int(s) fits a C int
FitsCInt(s) ==
    LET t == DropZeros(strip(s))
    IN  \/ Len(t) < Len(MaxCIntDigits)
        \/ Len(t) = Len(MaxCIntDigits) /\ DigitsLeq(t, MaxCIntDigits)

\* dt_time(hour, minute) on the texts of its arguments: the conversion to C int
\* comes first (OverflowError), the range checks after it (ValueError)
time_ctor(hour_str, min_str) ==
    IF ~FitsCInt(hour_str) \/ ~FitsCInt(min_str) THEN "OverflowError"
    ELSE LET h == IntOfDigits(strip(hour_str))
             m == IntOfDigits(strip(min_str))
         IN  IF h <= 23 /\ m <= 59 THEN "ok" ELSE "ValueError"

BadTime(err) == [status |-> err, start |-> <<0, 0>>, end |-> <<0, 0>>]

\* parse_time(time_str): start and end as <<hour, minute>>, or the exception
parse_time(time_str) ==
    LET parts == split(time_str, <<"-">>)
    IN  IF Len(parts) # 2 THEN BadTime("ValueError")
        ELSE
          LET s == split(parts[1], <<":">>)
              e == split(parts[2], <<":">>)
          IN  IF Len(s) # 2 \/ ~IntOk(s[1]) \/ ~IntOk(s[2]) THEN BadTime("ValueError")
              ELSE IF Len(e) # 2 \/ ~IntOk(e[1]) \/ ~IntOk(e[2])
                   THEN BadTime("ValueError")
              ELSE IF time_ctor(s[1], s[2]) # "ok" THEN BadTime(time_ctor(s[1], s[2]))
              ELSE IF time_ctor(e[1], e[2]) # "ok" THEN BadTime(time_ctor(e[1], e[2]))
              ELSE [status |-> "ok",
                    start |-> <<IntOfDigits(strip(s[1])), IntOfDigits(strip(s[2]))>>,
                    end |-> <<IntOfDigits(strip(e[1])), IntOfDigits(strip(e[2]))>>]

\* str(event_date): YYYY-MM-DD
date_str(d) ==
    ZeroPad(StrOfNat(d.year), 4) \o <<"-">> \o ZeroPad(StrOfNat(d.month), 2)
        \o <<"-">> \o ZeroPad(StrOfNat(d.day), 2)

\* str(start_time): HH:MM:SS, the seconds always zero
time_str(t) ==
    ZeroPad(StrOfNat(t[1]), 2) \o <<":">> \o ZeroPad(StrOfNat(t[2]), 2) \o <<":","0","0">>

\* "if entry.week": the week is neither None nor 0
week_truthy(week) == week # NoWeek /\ week[1] # 0

\* the description create_event sets
event_description(entry) ==
    LET base == IF entry.room = Teams
                THEN <<"O","n","l","i","n","e"," ","c","l","a","s","s"," ","f","o","r"," ">> \o entry.class_group
                ELSE <<"C","l","a","s","s",":"," ">> \o entry.class_group \o <<"\n","R","o","o","m",":"," ">> \o entry.room
    IN  IF week_truthy(entry.week)
        THEN base \o <<"\n","W","e","e","k",":"," ">> \o StrOfNat(entry.week[1])
        ELSE base

\* the uid without the class group
event_uid_without_group(entry, event_date, start_time) ==
    entry.course_code \o <<"-">> \o date_str(event_date) \o <<"-">> \o time_str(start_time)

\* the uid create_event sets
event_uid(entry, event_date, start_time) ==
    entry.course_code \o <<"-">> \o entry.class_group \o <<"-">>
        \o date_str(event_date) \o <<"-">> \o time_str(start_time)

NoEvent == [summary |-> <<>>, dtstart |-> <<>>, dtend |-> <<>>,
            location |-> <<>>, description |-> <<>>, uid |-> <<>>]

\* create_event(entry) once its date and time are parsed
make_event(entry, event_date, times) ==
    IF ~event_date.ok THEN [status |-> "ValueError", event |-> NoEvent]
    ELSE IF times.status # "ok" THEN [status |-> times.status, event |-> NoEvent]
    ELSE [status |-> "ok",
          event |->
            [summary |-> entry.course_code \o <<" ","(">> \o entry.class_group \o <<")">>,
             dtstart |-> <<event_date.year, event_date.month, event_date.day>>
                             \o times.start,
             dtend |-> <<event_date.year, event_date.month, event_date.day>>
                           \o times.end,
             location |-> IF entry.room = Teams
                          THEN <<"M","i","c","r","o","s","o","f","t"," ","T","e","a","m","s"," ","(","O","n","l","i","n","e",")">>
                          ELSE <<"R","o","o","m"," ">> \o entry.room,
             description |-> event_description(entry),
             uid |-> event_uid(entry, event_date, times.start)]]

\* create_event(entry): the event, or the exception that leaves it; the date is
\* parsed first, so its ValueError comes before any exception of the time
create_event(entry) ==
    make_event(entry, parse_german_date(entry.date), parse_time(entry.time))

----------------------------------------------------------------------------
(* The entries the exporter is given *)

MaxEntries == 3

Entry(date, time, course_code, room, class_group, week) ==
    [date |-> date, time |-> time, course_code |-> course_code, room |-> room,
     class_group |-> class_group, week |-> week]

EntryPool == {
    Entry(<<"D","o","n","n","e","r","s","t","a","g",","," ","1","4","."," ","A","u","g","u","s","t"," ","2","0","2","5">>, <<"1","7",":","3","0","-","1","9",":","0","0">>, <<"O","O","P">>, <<"A","1">>, <<"2","5","A">>, <<7>>),
    Entry(<<"D","o","n","n","e","r","s","t","a","g",","," ","1","4","."," ","A","u","g","u","s","t"," ","2","0","2","5">>, <<"1","7",":","3","0","-","2","0",":","1","5">>, <<"O","O","P">>, <<"A","1">>, <<"2","5","A">>, <<7>>),
    Entry(<<"D","o","n","n","e","r","s","t","a","g",","," ","1","4","."," ","A","u","g","u","s","t"," ","2","0","2","5">>, <<"1","7",":","3","0","-","1","9",":","0","0">>, <<"O","O","P">>, Teams, <<"2","5","B">>, NoWeek),
    Entry(<<"F","r","e","i","t","a","g",","," ","3","1","."," ","F","e","b","r","u","a","r"," ","2","0","2","5">>, <<"0","8",":","0","0","-","0","9",":","0","0">>, <<"M","A","T">>, <<"B","2">>, <<"2","5","A">>, <<7>>),
    Entry(<<"F","r","e","i","t","a","g",","," ","1","5","."," ","A","u","g","u","s","t"," ","2","0","2","5">>, <<"2","5",":","0","0","-","2","6",":","0","0">>, <<"M","A","T">>, <<"B","2">>, <<"2","5","A">>, NoWeek),
    Entry(<<"F","r","e","i","t","a","g",","," ","1","5","."," ","A","u","g","u","s","t"," ","2","0","2","5">>, <<"0","8",":","0","0","-","0","9",":","0","0">>, <<"S","W","E">>, <<"B","2">>, <<"2","5","A">>, <<0>>),
    Entry(<<"F","r","e","i","t","a","g",","," ","1","5","."," ","A","u","g","u","s","t"," ","2","0","2","5">>, <<"9","9","9","9","9","9","9","9","9","9","9",":","0","0","-","1","0",":","0","0">>, <<"S","W","E">>, <<"B","2">>, <<"2","5","A">>, NoWeek),
    Entry(<<"M","o","n","t","a","g",","," ","1","."," ","M","a","i"," ","2","0","2","5">>, <<"0","8",":","0","0","-","0","9",":","0","0">>, <<"A","-","B">>, <<"C","3">>, <<"C">>, NoWeek),
    Entry(<<"M","o","n","t","a","g",","," ","1","."," ","M","a","i"," ","2","0","2","5">>, <<"0","8",":","0","0","-","0","9",":","0","0">>, <<"A">>, <<"C","3">>, <<"B","-","C">>, NoWeek) }

\* the lists of at most n entries
RECURSIVE ListsUpTo(_)
ListsUpTo(n) ==
    IF n = 0 THEN {<<>>}
    ELSE LET shorter == ListsUpTo(n - 1)
         IN  shorter \cup {Append(l, e) : l \in shorter, e \in EntryPool}

GroupArgs == {<<"2","5","A">>, <<"2","5","a">>}
FilenameArgs == {NoneStr, <<"m","y",".","i","c","s">>}

\* create_event, tabulated once over the entries the exporter is given
EventOf == [e \in EntryPool |-> create_event(e)]

\* the loop of export_to_ics from entry i on: events added in order, a
\* ValueError skips the entry, any other exception leaves the loop and the call
RECURSIVE export_loop(_, _, _)
export_loop(list, i, events) ==
    IF i > Len(list) THEN [status |-> "returned", events |-> events]
    ELSE LET r == EventOf[list[i]]
         IN  IF r.status = "ok" THEN export_loop(list, i + 1, Append(events, r.event))
             ELSE IF r.status = "ValueError" THEN export_loop(list, i + 1, events)
             ELSE [status |-> "raised", events |-> events]

\* export_to_ics(list, filename): what happens to the outcome and the files
export_to_ics(list, filename) ==
    LET r == export_loop(list, 1, <<>>)
    IN  IF r.status = "raised"
        THEN /\ outcome' = [status |-> "raised", text |-> "none", events |-> <<>>]
             /\ files' = files
        ELSE /\ outcome' = [status |-> "returned", text |-> "calendar",
                            events |-> r.events]
             /\ files' = IF Truthy(filename)
                         THEN {f \in files : f.name # filename}
                                  \cup {[name |-> filename, events |-> r.events]}
                         ELSE files

\* [e for e in entries if e.class_group == class_group]
RECURSIVE filter_group(_, _)
filter_group(list, class_group) ==
    IF Len(list) = 0 THEN <<>>
    ELSE IF list[1].class_group = class_group
         THEN <<list[1]>> \o filter_group(Tail(list), class_group)
         ELSE filter_group(Tail(list), class_group)

\* f"timetable_{class_group.lower()}.ics"
default_filename(class_group) == <<"t","i","m","e","t","a","b","l","e","_">> \o lower(class_group) \o <<".","i","c","s">>

\* the calls: export_to_ics(list, f) and export_by_class_group(list, g, f)
Calls ==
    {[op |-> "export_to_ics", entries |-> list, class_group |-> NoneStr,
      filename |-> f] : list \in ListsUpTo(MaxEntries), f \in FilenameArgs}
    \cup
    {[op |-> "export_by_class_group", entries |-> list, class_group |-> g,
      filename |-> f] :
        list \in ListsUpTo(MaxEntries), g \in GroupArgs, f \in FilenameArgs}

InitExport ==
    /\ call \in Calls
    /\ outcome = NoOutcome
    /\ files = NoFiles
    /\ ParserIdle
    /\ ExtractIdle

ExportToIcs ==
    /\ call.op = "export_to_ics"
    /\ outcome = NoOutcome
    /\ export_to_ics(call.entries, call.filename)
    /\ UNCHANGED <<call, parserVars, extractVars>>

ExportByClassGroup ==
    /\ call.op = "export_by_class_group"
    /\ outcome = NoOutcome
    /\ LET filtered_entries == filter_group(call.entries, call.class_group)
       IN  IF Len(filtered_entries) = 0
           THEN /\ outcome' = [status |-> "returned", text |-> "", events |-> <<>>]
                /\ files' = files
           ELSE export_to_ics(filtered_entries,
                              IF Truthy(call.filename) THEN call.filename
                              ELSE default_filename(call.class_group))
    /\ UNCHANGED <<call, parserVars, extractVars>>

NextExport == ExportToIcs \/ ExportByClassGroup

SpecExport == InitExport /\ [][NextExport]_vars

----------------------------------------------------------------------------
(* What the specification says of the exporter *)

\* the entry's date and time strings both parse
Parses(e) == parse_german_date(e.date).ok /\ parse_time(e.time).status = "ok"

\* the entries of a list that parse, in list order
Parseable(list) == SelectSeq(list, LAMBDA e : Parses(e))

Finished == outcome.status # "none"

SummaryOf(e) == e.course_code \o <<" ","(">> \o e.class_group \o <<")">>

\* C3: export_to_ics never aborts on a malformed entry: an entry whose date or
\* time fails to parse is skipped, every other entry yields one event block, in
\* list order.
C3_SkipsNeverAborts ==
    (call.op = "export_to_ics" /\ Finished) =>
        /\ outcome.status = "returned"
        /\ Len(outcome.events) = Len(Parseable(call.entries))
        /\ \A n \in 1..Len(outcome.events) :
              outcome.events[n].summary = SummaryOf(Parseable(call.entries)[n])

Matching(list, g) == SelectSeq(list, LAMBDA e : e.class_group = g)

\* C4: export_by_class_group returns "" and writes nothing when no entry has the
\* group; otherwise it exports only the entries of the group and writes the text
\* to the destination given, or to the name derived from the lower-cased group.
C4_FilteredExport ==
    (call.op = "export_by_class_group" /\ Finished) =>
        IF Len(Matching(call.entries, call.class_group)) = 0
        THEN /\ outcome.status = "returned"
             /\ outcome.text = ""
             /\ files = {}
        ELSE /\ outcome.status = "returned"
             /\ outcome.text = "calendar"
             /\ \A n \in 1..Len(outcome.events) :
                   \E i \in 1..Len(call.entries) :
                       /\ call.entries[i].class_group = call.class_group
                       /\ outcome.events[n].summary = SummaryOf(call.entries[i])
             /\ files = {[name |-> IF call.filename # NoneStr THEN call.filename
                                   ELSE <<"t","i","m","e","t","a","b","l","e","_">> \o lower(call.class_group)
                                            \o <<".","i","c","s">>,
                          events |-> outcome.events]}

Returned == call.op = "export_to_ics" /\ outcome.status = "returned"

HasDash(s) == \E i \in 1..Len(s) : s[i] = "-"

\* C6 as claimed: two entries get the same identifier exactly when they agree on
\* course code, class group, date and time.
C6_UidIffSameFields ==
    Returned =>
        LET acc == Parseable(call.entries)
        IN  \A n, m \in 1..Len(outcome.events) :
                outcome.events[n].uid = outcome.events[m].uid
                    <=> /\ acc[n].course_code = acc[m].course_code
                        /\ acc[n].class_group = acc[m].class_group
                        /\ acc[n].date = acc[m].date
                        /\ acc[n].time = acc[m].time

\* C6 as the code has it: two accepted entries get the same identifier exactly
\* when they agree on the text course_code-class_group, on the parsed calendar
\* date and on the parsed start time; when their course codes hold no dash, that
\* is agreement on course code and on class group.  The end time and the
\* weekday name do not enter the identifier.
C6_UidIffSameKey ==
    Returned =>
        LET acc == Parseable(call.entries)
        IN  /\ Len(acc) = Len(outcome.events)
            /\ \A n, m \in 1..Len(outcome.events) :
                  /\ outcome.events[n].uid = outcome.events[m].uid
                        <=> /\ acc[n].course_code \o <<"-">> \o acc[n].class_group
                                 = acc[m].course_code \o <<"-">> \o acc[m].class_group
                            /\ parse_german_date(acc[n].date)
                                 = parse_german_date(acc[m].date)
                            /\ parse_time(acc[n].time).start
                                 = parse_time(acc[m].time).start
                  /\ (/\ outcome.events[n].uid = outcome.events[m].uid
                      /\ ~HasDash(acc[n].course_code)
                      /\ ~HasDash(acc[m].course_code))
                        => /\ acc[n].course_code = acc[m].course_code
                           /\ acc[n].class_group = acc[m].class_group

\* two entries that differ in their time string (the end time) got one uid, and
\* a third of another class group got a different one
C6_Witness ==
    /\ Returned
    /\ Len(outcome.events) = 3
    /\ call.entries[1].time # call.entries[2].time
    /\ outcome.events[1].uid = outcome.events[2].uid
    /\ call.entries[3].course_code = call.entries[1].course_code
    /\ call.entries[3].class_group # call.entries[1].class_group
    /\ outcome.events[3].uid # outcome.events[1].uid

\* C8: the description of an accepted entry ends with "\nWeek: <week>" exactly
\* when the entry's week is set.
C8_WeekLineIffWeekSet ==
    Returned =>
        LET acc == Parseable(call.entries)
        IN  \A n \in 1..Len(outcome.events) :
                IF acc[n].week = NoWeek
                THEN ~Contains(outcome.events[n].description, <<"\n","W","e","e","k",":"," ">>)
                ELSE EndsWith(outcome.events[n].description,
                              <<"\n","W","e","e","k",":"," ">> \o StrOfNat(acc[n].week[1]))

=============================================================================
